---- MODULE Spec2Model ----
(***************************************************************************)
(* Model of src/jogo_combate.py: the combatants (Personagem, Heroi,        *)
(* Inimigo), the damage generator (GeradorDano) and the battle loop        *)
(* (Jogo.iniciar_jogo) with its turn resolution (acoes_das_escolhas).      *)
(*                                                                         *)
(* Three specifications share the module:                                  *)
(*   Spec      the battle: Jogo.iniciar_jogo driven by player choices;     *)
(*   SpecJusto the battle with a player who keeps choosing attacks;        *)
(*   SpecUnit  one Personagem exercised directly through its constructor,  *)
(*             its vida setter and receber_ataque, with any argument.      *)
(***************************************************************************)
EXTENDS Integers, FiniteSets, Sequences, TLC

VARIABLES
    heroi_vida,       \* self.heroi._vida
    inimigo_vida,     \* self.inimigo._vida
    heroi_nivel,      \* self.heroi._nivel
    inimigo_nivel,    \* self.inimigo._nivel
    vida_inicial,     \* history: the vida arguments given to the two constructors
    pc,               \* position of iniciar_jogo
    escolha,          \* local variable escolha of iniciar_jogo
    resultado,        \* local variable resultado of iniciar_jogo (a dict)
    turno,            \* history: what the last acoes_das_escolhas call did
    relatorio,        \* what final_do_jogo printed
    nomes,            \* self.heroi._nome and self.inimigo._nome
    ataques,          \* history: attack turns resolved so far (up to MaxAtaques)
    passos,           \* history: the calls made so far in this loop iteration
    n_final,          \* history: how many times final_do_jogo was called
    p_vida,           \* SpecUnit: the _vida of the Personagem under test
    p_hist            \* SpecUnit: history of the last operation on it

vars == <<heroi_vida, inimigo_vida, heroi_nivel, inimigo_nivel, vida_inicial,
          pc, escolha, resultado, turno, relatorio, nomes, ataques, passos,
          n_final, p_vida, p_hist>>

batalha_vars == <<heroi_vida, inimigo_vida, heroi_nivel, inimigo_nivel,
                  vida_inicial, pc, escolha, resultado, turno, relatorio,
                  nomes, ataques, passos, n_final>>

unit_vars == <<p_vida, p_hist>>

----------------------------------------------------------------------------
(* Bounds of the model *)

MaxVida == 8          \* largest vida argument given to a constructor
MaxVidaNegativa == 2  \* constructors are tried with vida down to -MaxVidaNegativa
MaxNivel == 2         \* levels range over 0..MaxNivel
MaxDanoUnit == 5      \* SpecUnit: receber_ataque is tried with |dano| <= MaxDanoUnit
MaxVidaUnit == 10     \* SpecUnit: cap on the vida a negative dano may build up
MaxAtaques == 5       \* the history counter ataques stops counting here

(* Program constants: the ranges of random.randint in GeradorDano *)

DanoBaseMin == 2
DanoBaseMax == 4
DanoEspecialMin == 5
DanoEspecialMax == 8

Max(a, b) == IF a >= b THEN a ELSE b

Min(a, b) == IF a <= b THEN a ELSE b

----------------------------------------------------------------------------
(* GeradorDano: the values the two generators can return *)

gerar_dano_base_largo == DanoBaseMin..(DanoBaseMax + 1)

gerar_dano_base == DanoBaseMin..DanoBaseMax

gerar_dano_especial == DanoEspecialMin..DanoEspecialMax

(* One draw of every generator call a turn may make: the hero's base or    *)
(* special value and the enemy's base value.                               *)
Sorteios == [base_heroi : gerar_dano_base,
             especial_heroi : gerar_dano_especial,
             base_inimigo : gerar_dano_base]

(* The draws a resolution of choice e consumes: "1" calls gerar_dano_base   *)
(* for the hero, "2" calls gerar_dano_especial, both may call              *)
(* gerar_dano_base for the enemy, any other choice calls no generator. A   *)
(* generator that is not called keeps its smallest value as a placeholder. *)
SorteiosDe(e) ==
    {s \in Sorteios :
        /\ e # "1" => s.base_heroi = DanoBaseMin
        /\ e # "2" => s.especial_heroi = DanoEspecialMin
        /\ e \notin {"1", "2"} => s.base_inimigo = DanoBaseMin}

----------------------------------------------------------------------------
(* Personagem *)

(* The vida setter for an int argument: a negative value is stored as 0.   *)
vida_setter_sem_clamp(novo_valor_vida) == novo_valor_vida

vida_setter(novo_valor_vida) ==
    IF novo_valor_vida < 0 THEN 0 ELSE novo_valor_vida

(* The vida setter for a value of any type: tipo is the value's Python     *)
(* type and v its integer part. isinstance(x, int) holds for int and for   *)
(* bool (a subclass of int); any other value raises ValueError before      *)
(* _vida is written.                                                       *)
TiposInteiros == {"int", "bool"}

TiposNaoInteiros == {"float", "str", "NoneType"}

vida_setter_valor_coage(vida_atual, tipo, v) ==
    [vida |-> vida_setter(v), erro |-> ""]

vida_setter_valor(vida_atual, tipo, v) ==
    IF tipo \in TiposInteiros
    THEN [vida |-> vida_setter(v), erro |-> ""]
    ELSE [vida |-> vida_atual, erro |-> "ValueError"]

(* receber_ataque: self.vida -= dano, i.e. the setter applied to vida-dano *)
receber_ataque_soma(vida, dano) == vida_setter(vida + dano)

receber_ataque(vida, dano) == vida_setter(vida - dano)

(* atacar / ataque_especial: dano = generator value * nivel, applied to    *)
(* the target through receber_ataque and returned.                         *)
atacar_sem_nivel(nivel, alvo_vida, g) ==
    [dano |-> g, alvo_vida |-> receber_ataque(alvo_vida, g)]

atacar(nivel, alvo_vida, g) ==
    [dano |-> g * nivel, alvo_vida |-> receber_ataque(alvo_vida, g * nivel)]

ataque_especial(nivel, alvo_vida, g) ==
    [dano |-> g * nivel, alvo_vida |-> receber_ataque(alvo_vida, g * nivel)]

----------------------------------------------------------------------------
(* Jogo *)

Vazio == [k \in {} |-> TRUE]   \* no dict bound yet

(* dict.get(chave): the value, or None (here FALSE) when the key is absent *)
get(d, chave) == IF chave \in DOMAIN d THEN d[chave] ELSE FALSE

SemTurno ==
    [ataque |-> "nenhum", heroi_antes |-> 0, inimigo_antes |-> 0,
     inimigo_meio |-> 0, g_heroi |-> 0, g_inimigo |-> 0, contra |-> 0]

(* The enemy's answer, shared by ataque_normal and ataque_especial_heroi:  *)
(*     dano_do_inimigo = 0                                                 *)
(*     if self.inimigo.vida > 0:                                           *)
(*         dano_do_inimigo = self.inimigo.atacar(self.heroi)               *)
(* golpe is what the hero's attack returned and did to the enemy.          *)
resposta_do_inimigo_sempre(nome, golpe, g_heroi, hv, iv, in, s) ==
    LET r == atacar(in, hv, s.base_inimigo)
    IN  [resultado |-> [dano_do_heroi |-> golpe.dano, dano_do_inimigo |-> r.dano],
         heroi_vida |-> r.alvo_vida,
         inimigo_vida |-> golpe.alvo_vida,
         turno |-> [ataque |-> nome, heroi_antes |-> hv, inimigo_antes |-> iv,
                    inimigo_meio |-> golpe.alvo_vida, g_heroi |-> g_heroi,
                    g_inimigo |-> s.base_inimigo, contra |-> 1]]

resposta_do_inimigo_alvo_errado(nome, golpe, g_heroi, hv, iv, in, s) ==
    IF golpe.alvo_vida > 0
    THEN LET r == atacar(in, golpe.alvo_vida, s.base_inimigo)
         IN  [resultado |-> [dano_do_heroi |-> golpe.dano,
                             dano_do_inimigo |-> r.dano],
              heroi_vida |-> hv,
              inimigo_vida |-> r.alvo_vida,
              turno |-> [ataque |-> nome, heroi_antes |-> hv,
                         inimigo_antes |-> iv,
                         inimigo_meio |-> golpe.alvo_vida, g_heroi |-> g_heroi,
                         g_inimigo |-> s.base_inimigo, contra |-> 1]]
    ELSE [resultado |-> [dano_do_heroi |-> golpe.dano, dano_do_inimigo |-> 0],
          heroi_vida |-> hv,
          inimigo_vida |-> golpe.alvo_vida,
          turno |-> [ataque |-> nome, heroi_antes |-> hv, inimigo_antes |-> iv,
                     inimigo_meio |-> golpe.alvo_vida, g_heroi |-> g_heroi,
                     g_inimigo |-> 0, contra |-> 0]]

resposta_do_inimigo_nunca(nome, golpe, g_heroi, hv, iv, in, s) ==
    [resultado |-> [dano_do_heroi |-> golpe.dano, dano_do_inimigo |-> 0],
     heroi_vida |-> hv,
     inimigo_vida |-> golpe.alvo_vida,
     turno |-> [ataque |-> nome, heroi_antes |-> hv, inimigo_antes |-> iv,
                inimigo_meio |-> golpe.alvo_vida, g_heroi |-> g_heroi,
                g_inimigo |-> 0, contra |-> 0]]

resposta_do_inimigo(nome, golpe, g_heroi, hv, iv, in, s) ==
    IF golpe.alvo_vida > 0
    THEN LET r == atacar(in, hv, s.base_inimigo)
         IN  [resultado |-> [dano_do_heroi |-> golpe.dano,
                             dano_do_inimigo |-> r.dano],
              heroi_vida |-> r.alvo_vida,
              inimigo_vida |-> golpe.alvo_vida,
              turno |-> [ataque |-> nome, heroi_antes |-> hv,
                         inimigo_antes |-> iv,
                         inimigo_meio |-> golpe.alvo_vida, g_heroi |-> g_heroi,
                         g_inimigo |-> s.base_inimigo, contra |-> 1]]
    ELSE [resultado |-> [dano_do_heroi |-> golpe.dano, dano_do_inimigo |-> 0],
          heroi_vida |-> hv,
          inimigo_vida |-> golpe.alvo_vida,
          turno |-> [ataque |-> nome, heroi_antes |-> hv, inimigo_antes |-> iv,
                     inimigo_meio |-> golpe.alvo_vida, g_heroi |-> g_heroi,
                     g_inimigo |-> 0, contra |-> 0]]

(* ataque_normal(hv, iv, hn, in, s): hero health hv and level hn, enemy    *)
(* health iv and level in, generator draws s.                              *)
ataque_normal(hv, iv, hn, in, s) ==
    resposta_do_inimigo("atacar", atacar(hn, iv, s.base_heroi),
                        s.base_heroi, hv, iv, in, s)

ataque_especial_heroi(hv, iv, hn, in, s) ==
    resposta_do_inimigo("ataque_especial",
                        ataque_especial(hn, iv, s.especial_heroi),
                        s.especial_heroi, hv, iv, in, s)

(* A resolution that touches no combatant *)
sem_efeito(d, hv, iv) ==
    [resultado |-> d, heroi_vida |-> hv, inimigo_vida |-> iv,
     turno |-> [SemTurno EXCEPT !.heroi_antes = hv, !.inimigo_antes = iv,
                                !.inimigo_meio = iv]]

acoes_das_escolhas_sair_ataca(e, hv, iv, hn, in, s) ==
    IF e = "1" \/ e = "3" THEN ataque_normal(hv, iv, hn, in, s)
    ELSE IF e = "2" THEN ataque_especial_heroi(hv, iv, hn, in, s)
    ELSE sem_efeito([escolha_invalida |-> TRUE], hv, iv)

acoes_das_escolhas_misto(e, hv, iv, hn, in, s) ==
    IF e = "1" THEN ataque_normal(hv, iv, hn, in, s)
    ELSE IF e = "2" THEN ataque_especial_heroi(hv, iv, hn, in, s)
    ELSE IF e = "3" THEN sem_efeito([sair_do_jogo |-> TRUE], hv, iv)
    ELSE sem_efeito([sair_do_jogo |-> FALSE, escolha_invalida |-> TRUE], hv, iv)

acoes_das_escolhas(e, hv, iv, hn, in, s) ==
    IF e = "1" THEN ataque_normal(hv, iv, hn, in, s)
    ELSE IF e = "2" THEN ataque_especial_heroi(hv, iv, hn, in, s)
    ELSE IF e = "3" THEN sem_efeito([sair_do_jogo |-> TRUE], hv, iv)
    ELSE sem_efeito([escolha_invalida |-> TRUE], hv, iv)

(* while self.heroi.vida > 0 and self.inimigo.vida > 0 *)
condicao_do_loop_ou(hv, iv) == hv > 0 \/ iv > 0

condicao_do_loop(hv, iv) == hv > 0 /\ iv > 0

(* VisualizadorBatalha.final_do_jogo: the message printed, if any *)
final_do_jogo_so_heroi(hv, iv) ==
    IF hv > 0 /\ iv <= 0 THEN "heroi_venceu"
    ELSE IF iv > 0 /\ hv <= 0 THEN "heroi_venceu"
    ELSE "nenhuma"

final_do_jogo(hv, iv) ==
    IF hv > 0 /\ iv <= 0 THEN "heroi_venceu"
    ELSE IF iv > 0 /\ hv <= 0 THEN "inimigo_venceu"
    ELSE "nenhuma"

----------------------------------------------------------------------------
(* The battle: Jogo.iniciar_jogo *)

(* What the player may type: the three menu entries and other inputs *)
Escolhas == {"1", "2", "3", "4", ""}

Niveis == 0..MaxNivel

VidasIniciais == (0 - MaxVidaNegativa)..MaxVida

(* The names given at lines 265-274 *)
Nomes == [heroi |-> "Asta", inimigo |-> "Lucifer"]

SemUnit == [op |-> "nenhuma", antes |-> 0, arg |-> 0, tipo |-> "int", erro |-> ""]

(* After Inimigo(...), Heroi(...), Jogo(...): both constructors store vida *)
(* through the setter; iniciar_jogo is about to test its while condition.  *)
Init ==
    /\ vida_inicial \in [heroi : VidasIniciais, inimigo : VidasIniciais]
    /\ heroi_vida = vida_setter(vida_inicial.heroi)
    /\ inimigo_vida = vida_setter(vida_inicial.inimigo)
    /\ heroi_nivel \in Niveis
    /\ inimigo_nivel \in Niveis
    /\ pc = "while"
    /\ escolha = ""
    /\ resultado = Vazio
    /\ turno = SemTurno
    /\ relatorio = ""
    /\ nomes = Nomes
    /\ ataques = 0
    /\ passos = << >>
    /\ n_final = 0
    /\ p_vida = 0
    /\ p_hist = SemUnit

frame_personagens ==
    UNCHANGED <<heroi_vida, inimigo_vida, heroi_nivel, inimigo_nivel,
                vida_inicial, nomes>>

(* line 245: the while test, entering the body *)
EntrarNoLoop ==
    /\ pc = "while"
    /\ condicao_do_loop(heroi_vida, inimigo_vida)
    /\ pc' = "escolha_jogador"
    /\ frame_personagens
    /\ passos' = << >>
    /\ UNCHANGED <<escolha, resultado, turno, relatorio, ataques, n_final,
                   unit_vars>>

(* line 245: the while test, leaving the loop *)
SairDoLoop ==
    /\ pc = "while"
    /\ ~condicao_do_loop(heroi_vida, inimigo_vida)
    /\ pc' = "final_do_jogo"
    /\ frame_personagens
    /\ UNCHANGED <<escolha, resultado, turno, relatorio, ataques, passos,
                   n_final, unit_vars>>

(* lines 247-249: abertura_do_jogo, menu_das_jogadas, escolha_jogador *)
EscolhaJogador(e) ==
    /\ pc = "escolha_jogador"
    /\ escolha' = e
    /\ pc' = "acoes_das_escolhas"
    /\ frame_personagens
    /\ passos' = Append(passos, "escolha_jogador")
    /\ UNCHANGED <<resultado, turno, relatorio, ataques, n_final, unit_vars>>

(* line 250: resultado = self.acoes_das_escolhas(escolha) *)
AcoesDasEscolhas_sai_antes(s) ==
    /\ pc = "acoes_das_escolhas"
    /\ LET r == acoes_das_escolhas(escolha, heroi_vida, inimigo_vida,
                                   heroi_nivel, inimigo_nivel, s)
       IN  /\ resultado' = r.resultado
           /\ heroi_vida' = r.heroi_vida
           /\ inimigo_vida' = r.inimigo_vida
           /\ turno' = r.turno
           /\ ataques' = IF r.turno.ataque = "nenhum" THEN ataques
                         ELSE Min(ataques + 1, MaxAtaques)
           /\ pc' = IF get(r.resultado, "sair_do_jogo") THEN "final_do_jogo"
                    ELSE "resultado_das_escolhas"
    /\ passos' = Append(passos, "acoes_das_escolhas")
    /\ UNCHANGED <<heroi_nivel, inimigo_nivel, vida_inicial, nomes, escolha,
                   relatorio, n_final, unit_vars>>

AcoesDasEscolhas(s) ==
    /\ pc = "acoes_das_escolhas"
    /\ LET r == acoes_das_escolhas(escolha, heroi_vida, inimigo_vida,
                                   heroi_nivel, inimigo_nivel, s)
       IN  /\ resultado' = r.resultado
           /\ heroi_vida' = r.heroi_vida
           /\ inimigo_vida' = r.inimigo_vida
           /\ turno' = r.turno
           /\ ataques' = IF r.turno.ataque = "nenhum" THEN ataques
                         ELSE Min(ataques + 1, MaxAtaques)
    /\ passos' = Append(passos, "acoes_das_escolhas")
    /\ pc' = "resultado_das_escolhas"
    /\ UNCHANGED <<heroi_nivel, inimigo_nivel, vida_inicial, nomes, escolha,
                   relatorio, n_final, unit_vars>>

(* lines 251-253: the outcome is handed to the presentation layer *)
ResultadoDasEscolhas ==
    /\ pc = "resultado_das_escolhas"
    /\ pc' = "transicao"
    /\ frame_personagens
    /\ passos' = Append(passos, "resultado_das_escolhas")
    /\ UNCHANGED <<escolha, resultado, turno, relatorio, ataques, n_final,
                   unit_vars>>

(* lines 254-255: if resultado.get("sair_do_jogo"): break *)
TransicaoSair_continua ==
    /\ pc = "transicao"
    /\ get(resultado, "sair_do_jogo")
    /\ pc' = "while"
    /\ frame_personagens
    /\ UNCHANGED <<escolha, resultado, turno, relatorio, ataques, passos,
                   n_final, unit_vars>>

TransicaoSair ==
    /\ pc = "transicao"
    /\ get(resultado, "sair_do_jogo")
    /\ pc' = "final_do_jogo"
    /\ frame_personagens
    /\ UNCHANGED <<escolha, resultado, turno, relatorio, ataques, passos,
                   n_final, unit_vars>>

(* lines 256-257: if resultado.get("escolha_invalida"): continue *)
TransicaoInvalida_para ==
    /\ pc = "transicao"
    /\ ~get(resultado, "sair_do_jogo")
    /\ get(resultado, "escolha_invalida")
    /\ pc' = "final_do_jogo"
    /\ frame_personagens
    /\ UNCHANGED <<escolha, resultado, turno, relatorio, ataques, passos,
                   n_final, unit_vars>>

TransicaoInvalida ==
    /\ pc = "transicao"
    /\ ~get(resultado, "sair_do_jogo")
    /\ get(resultado, "escolha_invalida")
    /\ pc' = "while"
    /\ frame_personagens
    /\ UNCHANGED <<escolha, resultado, turno, relatorio, ataques, passos,
                   n_final, unit_vars>>

(* end of the loop body after an attack turn: back to the while test *)
TransicaoTurno ==
    /\ pc = "transicao"
    /\ ~get(resultado, "sair_do_jogo")
    /\ ~get(resultado, "escolha_invalida")
    /\ pc' = "while"
    /\ frame_personagens
    /\ UNCHANGED <<escolha, resultado, turno, relatorio, ataques, passos,
                   n_final, unit_vars>>

(* line 258: self.visualizador.final_do_jogo(self.heroi, self.inimigo) *)
FinalDoJogo ==
    /\ pc = "final_do_jogo"
    /\ relatorio' = final_do_jogo(heroi_vida, inimigo_vida)
    /\ pc' = "fim"
    /\ frame_personagens
    /\ n_final' = n_final + 1
    /\ UNCHANGED <<escolha, resultado, turno, ataques, passos, unit_vars>>

Next ==
    \/ EntrarNoLoop
    \/ SairDoLoop
    \/ \E e \in Escolhas : EscolhaJogador(e)
    \/ \E s \in SorteiosDe(escolha) : AcoesDasEscolhas(s)
    \/ ResultadoDasEscolhas
    \/ TransicaoSair
    \/ TransicaoInvalida
    \/ TransicaoTurno
    \/ FinalDoJogo

Spec == Init /\ [][Next]_vars

(* The battle with a player who answers every prompt and who, as long as   *)
(* prompts keep coming, chooses an attack ("1" or "2") again and again;    *)
(* every other step of iniciar_jogo runs as soon as it can.                *)
EscolhaDeAtaque == \E e \in {"1", "2"} : EscolhaJogador(e)

SpecJusto == Spec /\ WF_vars(Next) /\ SF_vars(EscolhaDeAtaque)

----------------------------------------------------------------------------
(* One Personagem exercised directly: the constructor, an assignment to    *)
(* vida, and receber_ataque, each with any integer argument in range.      *)

DanosUnit == (0 - MaxDanoUnit)..MaxDanoUnit

InitUnit ==
    /\ \E v \in VidasIniciais :
          /\ p_vida = vida_setter(v)
          /\ p_hist = [op |-> "__init__", antes |-> 0, arg |-> v,
                       tipo |-> "int", erro |-> ""]
    /\ heroi_vida = 0
    /\ inimigo_vida = 0
    /\ heroi_nivel = 0
    /\ inimigo_nivel = 0
    /\ vida_inicial = [heroi |-> 0, inimigo |-> 0]
    /\ pc = "unit"
    /\ escolha = ""
    /\ resultado = Vazio
    /\ turno = SemTurno
    /\ relatorio = ""
    /\ nomes = Nomes
    /\ ataques = 0
    /\ passos = << >>
    /\ n_final = 0

(* p.vida = v *)
UnitAtribuirVida(v) ==
    /\ pc = "unit"
    /\ p_vida' = vida_setter(v)
    /\ p_hist' = [op |-> "vida", antes |-> p_vida, arg |-> v,
                  tipo |-> "int", erro |-> ""]
    /\ UNCHANGED batalha_vars

(* p.vida = x for a value x that is no plain int: a bool (False, True) or  *)
(* a float, str or None, whose integer part is v                           *)
UnitAtribuirValor(tipo, v) ==
    /\ pc = "unit"
    /\ tipo = "bool" => v \in 0..1
    /\ LET r == vida_setter_valor(p_vida, tipo, v)
       IN  /\ p_vida' = r.vida
           /\ p_hist' = [op |-> "vida", antes |-> p_vida, arg |-> v,
                         tipo |-> tipo, erro |-> r.erro]
    /\ UNCHANGED batalha_vars

(* p.receber_ataque(d) *)
UnitReceberAtaque(d) ==
    /\ pc = "unit"
    /\ p_vida - d <= MaxVidaUnit
    /\ p_vida - d >= 0 - MaxVidaUnit
    /\ p_vida' = receber_ataque(p_vida, d)
    /\ p_hist' = [op |-> "receber_ataque", antes |-> p_vida, arg |-> d,
                  tipo |-> "int", erro |-> ""]
    /\ UNCHANGED batalha_vars

NextUnit ==
    \/ \E v \in VidasIniciais : UnitAtribuirVida(v)
    \/ \E t \in TiposNaoInteiros \cup {"bool"}, v \in VidasIniciais :
          UnitAtribuirValor(t, v)
    \/ \E d \in DanosUnit : UnitReceberAtaque(d)

SpecUnit == InitUnit /\ [][NextUnit]_vars

----------------------------------------------------------------------------
(* Properties *)

Sair == [sair_do_jogo |-> TRUE]

Invalida == [escolha_invalida |-> TRUE]

EscolhasValidas == {"1", "2", "3"}

FoiAtaque == turno.ataque \in {"atacar", "ataque_especial"}

vidas == <<heroi_vida, inimigo_vida>>

(* C1: for a Personagem with health h >= 0 and every integer damage        *)
(* d >= 0, receber_ataque(d) leaves the stored health equal to             *)
(* max(0, h - d).                                                          *)
C1_ReceberAtaque ==
    (p_hist.op = "receber_ataque" /\ p_hist.antes >= 0 /\ p_hist.arg >= 0)
        => p_vida = Max(0, p_hist.antes - p_hist.arg)

(* a damage larger than the health was received and the health is 0 *)
C1_Witness ==
    /\ p_hist.op = "receber_ataque"
    /\ p_hist.antes > 0
    /\ p_hist.arg > p_hist.antes
    /\ p_vida = 0

(* C2: in every reachable state of the battle the health of the hero and   *)
(* of the enemy is an integer >= 0; a constructor given a negative health  *)
(* stores 0 (and any other health as given).                               *)
C2_VidaNaoNegativa ==
    /\ heroi_vida \in Nat
    /\ inimigo_vida \in Nat
    /\ resultado = Vazio =>
          /\ heroi_vida = Max(0, vida_inicial.heroi)
          /\ inimigo_vida = Max(0, vida_inicial.inimigo)

(* the enemy's answer exceeded the hero's health, which was clamped to 0 *)
C2_Witness ==
    /\ FoiAtaque
    /\ turno.contra = 1
    /\ resultado.dano_do_inimigo > turno.heroi_antes
    /\ heroi_vida = 0
    /\ inimigo_vida > 0

(* C3: in a normal or special attack turn, if the enemy's health after the *)
(* hero's attack is <= 0, the enemy does not counter-attack:               *)
(* dano_do_inimigo is 0 and the hero's health is the one before the turn.  *)
C3_SemContraAtaque ==
    (FoiAtaque /\ turno.inimigo_meio <= 0) =>
        /\ turno.contra = 0
        /\ resultado.dano_do_inimigo = 0
        /\ heroi_vida = turno.heroi_antes

(* a special attack brought the enemy to 0 while the enemy could have done *)
(* damage to a living hero                                                 *)
C3_Witness ==
    /\ turno.ataque = "ataque_especial"
    /\ turno.inimigo_antes > 0
    /\ turno.inimigo_meio = 0
    /\ inimigo_nivel > 0
    /\ heroi_vida > 0
    /\ pc = "resultado_das_escolhas"

(* C4: in a normal or special attack turn, if the enemy's health is > 0    *)
(* after the hero's attack, the enemy counter-attacks exactly once with    *)
(* its base attack: dano_do_inimigo = base() * enemy level and the hero's  *)
(* health becomes max(0, hero health - dano_do_inimigo). Hero(100, 5)      *)
(* against Enemy(80, 5) with base fixed to 3: damages 15 and 15, enemy     *)
(* health 65, hero health 85.                                              *)
C4_ContraAtaque ==
    /\ (FoiAtaque /\ turno.inimigo_meio > 0) =>
          /\ turno.contra = 1
          /\ turno.g_inimigo \in DanoBaseMin..DanoBaseMax
          /\ resultado.dano_do_inimigo = turno.g_inimigo * inimigo_nivel
          /\ heroi_vida = Max(0, turno.heroi_antes - resultado.dano_do_inimigo)
          /\ inimigo_vida = turno.inimigo_meio
    /\ LET r == ataque_normal(100, 80, 5, 5,
                    [base_heroi |-> 3, especial_heroi |-> 5, base_inimigo |-> 3])
       IN  /\ r.resultado = [dano_do_heroi |-> 15, dano_do_inimigo |-> 15]
           /\ r.inimigo_vida = 65
           /\ r.heroi_vida = 85

(* the enemy survived a normal attack and took health from the hero *)
C4_Witness ==
    /\ turno.ataque = "atacar"
    /\ turno.inimigo_meio > 0
    /\ resultado.dano_do_inimigo > 0
    /\ heroi_vida > 0
    /\ heroi_vida = turno.heroi_antes - resultado.dano_do_inimigo
    /\ pc = "resultado_das_escolhas"

(* The value an attack returned (dano) against what it took from a target  *)
(* whose health went from antes to depois.                                 *)
DanoAplicado(dano, antes, depois) ==
    IF antes >= dano THEN antes - depois = dano ELSE dano > antes - depois

(* C5: atacar returns generator base output * attacker level and           *)
(* ataque_especial returns generator special output * attacker level; the  *)
(* returned value equals the target's health decrease whenever the         *)
(* target's health before the attack is >= that value, and exceeds the     *)
(* decrease otherwise.                                                     *)
C5_DanoRetornado ==
    /\ turno.ataque = "atacar" =>
          /\ turno.g_heroi \in DanoBaseMin..DanoBaseMax
          /\ resultado.dano_do_heroi = turno.g_heroi * heroi_nivel
    /\ turno.ataque = "ataque_especial" =>
          /\ turno.g_heroi \in DanoEspecialMin..DanoEspecialMax
          /\ resultado.dano_do_heroi = turno.g_heroi * heroi_nivel
    /\ FoiAtaque =>
          DanoAplicado(resultado.dano_do_heroi, turno.inimigo_antes,
                       turno.inimigo_meio)
    /\ (FoiAtaque /\ turno.contra = 1) =>
          /\ turno.g_inimigo \in DanoBaseMin..DanoBaseMax
          /\ resultado.dano_do_inimigo = turno.g_inimigo * inimigo_nivel
          /\ DanoAplicado(resultado.dano_do_inimigo, turno.heroi_antes,
                          heroi_vida)

(* a normal attack of a hero of level 2 took exactly what it returned *)
C5_Witness ==
    /\ turno.ataque = "atacar"
    /\ heroi_nivel = 2
    /\ resultado.dano_do_heroi = 2 * turno.g_heroi
    /\ turno.inimigo_antes - turno.inimigo_meio = resultado.dano_do_heroi
    /\ pc = "resultado_das_escolhas"

(* C6: resolving the choice "3" mutates no combatant state (health and     *)
(* level of hero and enemy are as before) and the outcome is the quit      *)
(* signal.                                                                 *)
C6_SairNaoMuta ==
    [][(pc = "acoes_das_escolhas" /\ escolha = "3") =>
          /\ resultado' = Sair
          /\ UNCHANGED <<heroi_vida, inimigo_vida, heroi_nivel, inimigo_nivel>>
          /\ turno'.ataque = "nenhum"]_vars

(* quit was resolved after a turn in which both combatants lost health *)
C6_Witness ==
    /\ pc = "resultado_das_escolhas"
    /\ escolha = "3"
    /\ resultado = Sair
    /\ heroi_vida < vida_inicial.heroi
    /\ inimigo_vida < vida_inicial.inimigo

(* C7: when the player issues Quit in an Active state, the loop ends right *)
(* after that outcome is reported: the only steps left are the report, the *)
(* break and the final report; no choice is requested and no turn is       *)
(* resolved any more, no winner message is produced, and both health       *)
(* values stay those from before the Quit.                                 *)
C7_SairTerminaLoop ==
    [][get(resultado, "sair_do_jogo") =>
          /\ pc \in {"resultado_das_escolhas", "transicao", "final_do_jogo"}
          /\ pc = "resultado_das_escolhas" => pc' = "transicao"
          /\ pc = "transicao" => pc' = "final_do_jogo"
          /\ pc = "final_do_jogo" => (pc' = "fim" /\ relatorio' = "nenhuma")
          /\ pc # "final_do_jogo" => relatorio' = ""
          /\ UNCHANGED <<escolha, resultado, turno>>
          /\ heroi_vida' = turno.heroi_antes
          /\ inimigo_vida' = turno.inimigo_antes
          /\ heroi_vida' > 0
          /\ inimigo_vida' > 0]_vars

(* the battle is over after a Quit that followed a turn of attacks, with   *)
(* both combatants alive and no winner message                             *)
C7_Witness ==
    /\ pc = "fim"
    /\ resultado = Sair
    /\ relatorio = "nenhuma"
    /\ heroi_vida > 0
    /\ inimigo_vida > 0
    /\ heroi_vida < vida_inicial.heroi

(* C8: a choice other than "1", "2" or "3" is resolved to the              *)
(* escolha_invalida outcome; it changes neither combatant's health, the    *)
(* engine stays Active (both healths > 0) and the loop goes through the    *)
(* report and the while test back to asking for a choice.                  *)
C8_EscolhaInvalida ==
    [][/\ (pc = "acoes_das_escolhas" /\ escolha \notin EscolhasValidas) =>
             /\ resultado' = Invalida
             /\ pc' = "resultado_das_escolhas"
             /\ UNCHANGED vidas
       /\ (get(resultado, "escolha_invalida") /\ pc # "escolha_jogador"
               /\ pc # "acoes_das_escolhas") =>
             /\ UNCHANGED <<vidas, resultado, turno, relatorio>>
             /\ heroi_vida > 0 /\ inimigo_vida > 0
             /\ pc \in {"resultado_das_escolhas", "transicao", "while"}
             /\ pc = "resultado_das_escolhas" => pc' = "transicao"
             /\ pc = "transicao" => pc' = "while"
             /\ pc = "while" => pc' = "escolha_jogador"]_vars

(* after an invalid choice the loop asks again, in the middle of a battle  *)
C8_Witness ==
    /\ pc = "escolha_jogador"
    /\ resultado = Invalida
    /\ escolha \notin EscolhasValidas
    /\ heroi_vida < vida_inicial.heroi
    /\ inimigo_vida > 0

(* C9: every resolution returns exactly one of three shapes: the pair      *)
(* {dano_do_heroi, dano_do_inimigo} for "1" and "2", {sair_do_jogo: True}  *)
(* for "3", {escolha_invalida: True} for any other input.                  *)
C9_FormasDoResultado ==
    (resultado # Vazio /\ pc # "acoes_das_escolhas") =>
        /\ escolha \in {"1", "2"} =>
              DOMAIN resultado = {"dano_do_heroi", "dano_do_inimigo"}
        /\ escolha = "3" => resultado = Sair
        /\ escolha \notin EscolhasValidas => resultado = Invalida
        /\ Cardinality({f \in {{"dano_do_heroi", "dano_do_inimigo"},
                               {"sair_do_jogo"}, {"escolha_invalida"}} :
                           f = DOMAIN resultado}) = 1

(* an input that is no menu entry was resolved *)
C9_Witness ==
    /\ pc = "resultado_das_escolhas"
    /\ escolha = ""
    /\ resultado = Invalida
    /\ turno.heroi_antes < vida_inicial.heroi

(* C10: Ended is terminal: once a combatant's health is <= 0 or the player *)
(* has quit, no choice is requested and no turn is resolved, so neither    *)
(* combatant's health changes again.                                       *)
C10_EndedTerminal ==
    [][(heroi_vida <= 0 \/ inimigo_vida <= 0 \/ get(resultado, "sair_do_jogo")) =>
          /\ UNCHANGED <<vidas, resultado, turno, escolha>>
          /\ pc' \notin {"escolha_jogador", "acoes_das_escolhas",
                         "resultado_das_escolhas"}]_vars

(* the battle is over with the hero at 0 after at least one turn *)
C10_Witness ==
    /\ pc = "fim"
    /\ FoiAtaque
    /\ heroi_vida = 0
    /\ inimigo_vida > 0

(* C11: a double knockout is unreachable: from a battle in which both      *)
(* combatants start with positive health, no sequence of turns reaches a   *)
(* state in which the hero's and the enemy's health are both <= 0.         *)
C11_SemNocauteDuplo ==
    (vida_inicial.heroi > 0 /\ vida_inicial.inimigo > 0) =>
        ~(heroi_vida <= 0 /\ inimigo_vida <= 0)

(* a battle that started with both alive ended, after an exchange that     *)
(* hurt the hero, with the enemy knocked out and the hero standing         *)
C11_Witness ==
    /\ vida_inicial.heroi > 0
    /\ vida_inicial.inimigo > 0
    /\ pc = "fim"
    /\ inimigo_vida = 0
    /\ heroi_vida > 0
    /\ heroi_vida < vida_inicial.heroi

(* The loop body ran at least once and the loop was not left by Quit *)
LoopAcabouPorVida ==
    /\ pc = "fim"
    /\ resultado # Vazio
    /\ ~get(resultado, "sair_do_jogo")

(* C12: the final report names the hero as winner exactly when hero health *)
(* > 0 and enemy health <= 0, the enemy exactly when enemy health > 0 and  *)
(* hero health <= 0, and gives no winner message otherwise; so whenever    *)
(* the loop ends because a health reached 0 (not by Quit), exactly one     *)
(* winner message is produced and it names the surviving combatant.        *)
C12_RelatorioFinal ==
    /\ pc = "fim" =>
          /\ relatorio \in {"heroi_venceu", "inimigo_venceu", "nenhuma"}
          /\ relatorio = "heroi_venceu" <=> (heroi_vida > 0 /\ inimigo_vida <= 0)
          /\ relatorio = "inimigo_venceu" <=> (inimigo_vida > 0 /\ heroi_vida <= 0)
    /\ pc # "fim" => relatorio = ""
    /\ LoopAcabouPorVida =>
          \/ relatorio = "heroi_venceu" /\ heroi_vida > 0 /\ inimigo_vida = 0
          \/ relatorio = "inimigo_venceu" /\ inimigo_vida > 0 /\ heroi_vida = 0

(* the enemy's answer brought the hero to 0 and the enemy is reported as   *)
(* the winner                                                              *)
C12_Witness ==
    /\ LoopAcabouPorVida
    /\ FoiAtaque
    /\ turno.heroi_antes > 0
    /\ heroi_vida = 0
    /\ relatorio = "inimigo_venceu"

(* C17: with levels > 0, each combatant's health is non-increasing over    *)
(* the whole battle: no step of any kind leaves the hero's or the enemy's  *)
(* health higher than it was.                                              *)
C17_VidaNaoAumenta ==
    [][(heroi_nivel > 0 /\ inimigo_nivel > 0) =>
          /\ heroi_vida' <= heroi_vida
          /\ inimigo_vida' <= inimigo_vida]_vars

(* with both levels > 0, a second attack turn lowered both healths again   *)
C17_Witness ==
    /\ heroi_nivel > 0
    /\ inimigo_nivel > 0
    /\ FoiAtaque
    /\ turno.heroi_antes < vida_inicial.heroi
    /\ heroi_vida < turno.heroi_antes
    /\ inimigo_vida < turno.inimigo_antes
    /\ inimigo_vida > 0

(* C18: for an attacker of level L >= 1 the damage reported for a normal   *)
(* attack lies in [2L, 4L] and for a special attack in [5L, 8L]; both      *)
(* damage fields of an attack outcome are integers >= 0; a special attack  *)
(* deals strictly more damage than any normal attack at the same level.    *)
C18_FaixasDeDano ==
    /\ (turno.ataque = "atacar" /\ heroi_nivel >= 1) =>
          /\ resultado.dano_do_heroi >= 2 * heroi_nivel
          /\ resultado.dano_do_heroi <= 4 * heroi_nivel
    /\ (turno.ataque = "ataque_especial" /\ heroi_nivel >= 1) =>
          /\ resultado.dano_do_heroi >= 5 * heroi_nivel
          /\ resultado.dano_do_heroi <= 8 * heroi_nivel
    /\ (FoiAtaque /\ turno.contra = 1 /\ inimigo_nivel >= 1) =>
          /\ resultado.dano_do_inimigo >= 2 * inimigo_nivel
          /\ resultado.dano_do_inimigo <= 4 * inimigo_nivel
    /\ FoiAtaque =>
          /\ resultado.dano_do_heroi \in Nat
          /\ resultado.dano_do_inimigo \in Nat
    /\ \A L \in 1..MaxNivel :
          \A gb \in gerar_dano_base, ge \in gerar_dano_especial :
             ataque_especial(L, MaxVida, ge).dano > atacar(L, MaxVida, gb).dano

(* a normal attack of a hero of level 2 with the smallest draw, answered   *)
(* by an enemy of level 2 with the largest draw                            *)
C18_Witness ==
    /\ turno.ataque = "atacar"
    /\ heroi_nivel = 2
    /\ inimigo_nivel = 2
    /\ resultado.dano_do_heroi = 4
    /\ turno.contra = 1
    /\ resultado.dano_do_inimigo = 8

(* C19: a battle started with either combatant's health <= 0 (a negative   *)
(* initial health being stored as 0) starts Ended: iniciar_jogo requests   *)
(* no choice and resolves no turn, going from the while test straight to   *)
(* the final report, which names the surviving side if exactly one is      *)
(* alive and prints no winner if both are at 0.                            *)
C19_ComecaEnded ==
    (vida_inicial.heroi <= 0 \/ vida_inicial.inimigo <= 0) =>
        /\ pc \in {"while", "final_do_jogo", "fim"}
        /\ resultado = Vazio
        /\ turno = SemTurno
        /\ heroi_vida = Max(0, vida_inicial.heroi)
        /\ inimigo_vida = Max(0, vida_inicial.inimigo)
        /\ pc = "fim" =>
              relatorio = IF heroi_vida > 0 THEN "heroi_venceu"
                          ELSE IF inimigo_vida > 0 THEN "inimigo_venceu"
                          ELSE "nenhuma"

(* a hero constructed with a negative health lost to a living enemy        *)
(* without a single turn                                                   *)
C19_Witness ==
    /\ vida_inicial.heroi < 0
    /\ vida_inicial.inimigo > 0
    /\ pc = "fim"
    /\ relatorio = "inimigo_venceu"
    /\ resultado = Vazio

(* C13: assigning a non-integer value to a Personagem's health fails with  *)
(* ValueError at the assignment and is never coerced: the health stored    *)
(* before is left unchanged.                                               *)
C13_NaoInteiroFalha ==
    (p_hist.op = "vida" /\ p_hist.tipo \in {"float", "str", "NoneType"}) =>
        /\ p_hist.erro = "ValueError"
        /\ p_vida = p_hist.antes

(* a float other than the stored health was assigned to a Personagem with  *)
(* positive health, which kept it                                          *)
C13_Witness ==
    /\ p_hist.op = "vida"
    /\ p_hist.tipo = "float"
    /\ p_hist.erro = "ValueError"
    /\ p_hist.antes > 0
    /\ p_hist.arg # p_hist.antes
    /\ p_hist.arg >= 0
    /\ p_vida = p_hist.antes

(* C14: receber_ataque treats a negative amount as a contract violation: a *)
(* negative damage is rejected and never increases the target's health.    *)
C14_DanoNegativoRejeitado ==
    (p_hist.op = "receber_ataque" /\ p_hist.arg < 0) =>
        /\ p_hist.erro # ""
        /\ p_vida <= p_hist.antes

(* C15: no turn resolution changes anything but health values: name and    *)
(* level of both combatants are in every reachable state as at             *)
(* construction, and an attack or special attack changes only the target's *)
(* health: the enemy's health after a turn is what the hero's attack left  *)
(* (its own answer costs it nothing) and the hero's health changes by the  *)
(* enemy's damage alone.                                                   *)
C15_SoVidaMuda ==
    [][/\ UNCHANGED <<nomes, heroi_nivel, inimigo_nivel>>
       /\ nomes' = Nomes
       /\ pc = "acoes_das_escolhas" =>
             LET d_heroi == get(resultado', "dano_do_heroi")
                 d_inimigo == get(resultado', "dano_do_inimigo")
             IN  IF escolha \in {"1", "2"}
                 THEN /\ inimigo_vida' = Max(0, inimigo_vida - d_heroi)
                      /\ inimigo_vida' = turno'.inimigo_meio
                      /\ heroi_vida' = Max(0, heroi_vida - d_inimigo)
                 ELSE UNCHANGED vidas
       /\ pc # "acoes_das_escolhas" => UNCHANGED vidas]_vars

(* a special attack was answered: each side lost exactly the other's       *)
(* damage, with names and levels as constructed                            *)
C15_Witness ==
    /\ pc = "resultado_das_escolhas"
    /\ turno.ataque = "ataque_especial"
    /\ turno.contra = 1
    /\ resultado.dano_do_inimigo > 0
    /\ inimigo_vida = turno.inimigo_antes - resultado.dano_do_heroi
    /\ heroi_vida = turno.heroi_antes - resultado.dano_do_inimigo
    /\ nomes = Nomes
    /\ heroi_nivel = 1

(* C16: with hero level >= 1 every normal or special attack turn strictly  *)
(* decreases the enemy's health, by at least 2 * hero level or down to 0;  *)
(* the number of attack turns never exceeds                                *)
(* ceil(enemy initial health / (2 * hero level)); and with a player who    *)
(* keeps supplying attack choices the battle eventually ends (the loop     *)
(* can go on forever only through invalid choices without end).            *)
C16_AtaquesTerminam ==
    /\ [][(pc = "acoes_das_escolhas" /\ escolha \in {"1", "2"}
              /\ heroi_nivel >= 1) =>
             /\ inimigo_vida' < inimigo_vida
             /\ \/ inimigo_vida' = 0
                \/ inimigo_vida - inimigo_vida' >= 2 * heroi_nivel]_vars
    /\ [](heroi_nivel >= 1 =>
             ataques * 2 * heroi_nivel
                 < Max(0, vida_inicial.inimigo) + 2 * heroi_nivel)
    /\ (heroi_nivel >= 1 => <>(pc = "fim"))

(* a hero of level 1 needed the full ceil(8 / 2) = 4 attack turns to bring *)
(* an enemy of health 8 to 0                                               *)
C16_Witness ==
    /\ heroi_nivel = 1
    /\ vida_inicial.inimigo = 8
    /\ ataques = 4
    /\ inimigo_vida = 0
    /\ heroi_vida > 0
    /\ pc = "fim"

PassosDoTurno ==
    <<"escolha_jogador", "acoes_das_escolhas", "resultado_das_escolhas">>

(* C20: in every loop iteration a choice is obtained, then resolved        *)
(* exactly once, then the outcome is reported to the presentation layer    *)
(* exactly once (attack, quit and invalid outcomes alike), and only then   *)
(* the transition is taken; the final report is produced exactly once,     *)
(* after the loop has ended.                                               *)
C20_OrdemDosPassos ==
    /\ pc = "escolha_jogador" => passos = << >>
    /\ pc = "acoes_das_escolhas" => passos = SubSeq(PassosDoTurno, 1, 1)
    /\ pc = "resultado_das_escolhas" => passos = SubSeq(PassosDoTurno, 1, 2)
    /\ pc = "transicao" => passos = PassosDoTurno
    /\ pc \in {"while", "final_do_jogo", "fim"} =>
          passos = IF resultado = Vazio THEN << >> ELSE PassosDoTurno
    /\ pc = "final_do_jogo" =>
          \/ ~condicao_do_loop(heroi_vida, inimigo_vida)
          \/ get(resultado, "sair_do_jogo")
    /\ n_final = IF pc = "fim" THEN 1 ELSE 0
    /\ relatorio # "" <=> pc = "fim"

(* the final report was produced once, after a Quit that was resolved and  *)
(* reported like any other outcome                                         *)
C20_Witness ==
    /\ pc = "fim"
    /\ n_final = 1
    /\ passos = PassosDoTurno
    /\ resultado = Sair
    /\ ataques > 0

====
